---------------------------- MODULE Spec2Model ----------------------------
(***************************************************************************)
(* Model of the PiP arbitration engine of the PipVideo extension           *)
(* (background script: onMessage, sorting, triggerPictureInPicture and the *)
(* scripts it injects into the frames of a tab).                           *)
(*                                                                         *)
(* The specifications are defined over the same variables:                 *)
(*   SpecRank  the Ranker as a pure function: Init draws the probe result  *)
(*             r from a bounded set, the actions apply the merge, the sort *)
(*             and the shift of triggerPictureInPicture to it;             *)
(*   Spec      the activation pipeline: dispatcher, per-frame probes,      *)
(*             ranking, feedback, preference read, exit-guard installer    *)
(*             (with its timer), activator, and the page's own calls.      *)
(*   SpecLive  Spec from a part of its initial states, with weak fairness  *)
(*             of the settling of every operation an activation awaits;    *)
(*   SpecSignal   the Feedback Signaler alone: messages to onMessage and   *)
(*             error signals on the tabs;                                  *)
(*   SpecContent  the content script of a frame (getVideoInfo, triggerPip) *)
(*             and the popup's playlist action that messages it;           *)
(*   SpecWorkflow the genworkflow script: its skip list and its steps;     *)
(*   SpecPage  the pipeline with the messages of the content script and a  *)
(*             page that removes its video elements;                       *)
(*   SpecOverride the pipeline with a page that assigns an exit operation  *)
(*             of its own;                                                 *)
(*   SpecPlaylist the popup's changes of the stored playlist.              *)
(***************************************************************************)
EXTENDS Integers, Sequences, FiniteSets, TLC

(***************************************************************************)
(* Bounds of the model.                                                    *)
(***************************************************************************)
\* SpecRank: frame ids are 0..MaxFrameId
MaxFrameId == 2
\* SpecRank: at most this many frames answer the probe
MaxRankFrames == 3
\* SpecRank: at most this many video elements reported by one frame
MaxFrameVideos == 2
\* SpecRank: at most this many candidates in the merged list
MaxCandidates == 3

\* Spec: tabs are 1..NTabs
NTabs == 2
\* Spec: tab 1 has the frames 0..MaxSubFrame
MaxSubFrame == 1
\* Spec: triggerPictureInPicture is called at most NActs times
NActs == 2
\* Spec: at most this many video elements in a frame
MaxEs == 1
\* Spec: time passes in steps of TickMs
TickMs == 1000

\* setTimeout(..., 2000): the grace window of the exit guard
GraceMs == 2000

VARIABLES
  storage,     \* Spec: what chrome.storage.local holds under 'block-pip'
  doc,         \* Spec: per frame, its video elements and its PiP state
  ctx,         \* Spec: per frame, the MAIN world the guard installer runs in
  ui,          \* Spec: per tab, the action's icon, badge text and title
  act,         \* Spec: per call of triggerPictureInPicture, its locals
  rankPc,      \* SpecRank: "off" | "input" | "ranked" | "reranked"
  rankR,       \* SpecRank: r, the resolved value of the probe executeScript
  rankVideo,   \* SpecRank: video, the winner of the first run
  rankVideo2,  \* SpecRank: the winner of a second run on the same r
  cs,          \* SpecContent: a frame with the content script, and the popup
  wf           \* SpecWorkflow: a run of the genworkflow script

rankVars == <<rankPc, rankR, rankVideo, rankVideo2>>

pipeVars == <<storage, doc, ctx, ui, act>>

sideVars == <<cs, wf>>

vars == <<pipeVars, rankVars, sideVars>>

(***************************************************************************)
(* Values                                                                  *)
(***************************************************************************)
Range(s) == {s[i] : i \in 1..Len(s)}

SeqsUpTo(S, n) == UNION {[1..k -> S] : k \in 0..n}

\* what Array.prototype.shift returns on an empty array
undefined == [undef |-> TRUE]

\* the value of cs and of wf where the content script and the workflow
\* script do not run
notRunning == [running |-> FALSE]

\* {paused: e.paused, connected: e.isConnected}: one entry of a frame's result
VideoStates == [paused : BOOLEAN, connected : BOOLEAN]

\* the elements document.querySelectorAll('video') finds are connected (no
\* script of the extension defines the global videos the functions also
\* read, so es holds these elements only)
DocumentVideos == {v \in VideoStates : v.connected}

\* a candidate after the merge has stamped it with its frame's id
Candidates == [paused : BOOLEAN, connected : BOOLEAN, frameId : 0..MaxFrameId]

(***************************************************************************)
(* The Ranker                                                              *)
(***************************************************************************)
\* a comparator without the paused branches
sortingNoPaused(a, b) ==
  IF a.connected = FALSE /\ b.connected THEN -1
  ELSE IF b.connected = FALSE /\ a.connected THEN 1
  ELSE a.frameId - b.frameId

\* a comparator whose last branch compares the frame ids the other way
sortingFrameDesc(a, b) ==
  IF a.paused = FALSE /\ b.paused THEN -1
  ELSE IF b.paused = FALSE /\ a.paused THEN 1
  ELSE IF a.connected = FALSE /\ b.connected THEN -1
  ELSE IF b.connected = FALSE /\ a.connected THEN 1
  ELSE b.frameId - a.frameId

\* a comparator without the final frameId branch (as the Activator's copy)
sortingNoFrameId(a, b) ==
  IF a.paused = FALSE /\ b.paused THEN -1
  ELSE IF b.paused = FALSE /\ a.paused THEN 1
  ELSE IF a.connected = FALSE /\ b.connected THEN -1
  ELSE IF b.connected = FALSE /\ a.connected THEN 1
  ELSE 0

\* a comparator without the connected branches
sortingNoConnected(a, b) ==
  IF a.paused = FALSE /\ b.paused THEN -1
  ELSE IF b.paused = FALSE /\ a.paused THEN 1
  ELSE a.frameId - b.frameId

\* const sorting = (a, b) => {...}: negative when a is ordered before b
sorting(a, b) ==
  IF a.paused = FALSE /\ b.paused THEN -1
  ELSE IF b.paused = FALSE /\ a.paused THEN 1
  ELSE IF a.connected = FALSE /\ b.connected THEN -1
  ELSE IF b.connected = FALSE /\ a.connected THEN 1
  ELSE a.frameId - b.frameId

\* one step of a stable insertion: x goes behind the last element of the
\* sorted prefix acc that does not have to come after it
insertSorted(acc, x, cmp) ==
  LET keep == {k \in 1..Len(acc) : cmp[<<acc[k], x>>] <= 0}
      p == IF keep = {} THEN 0 ELSE CHOOSE k \in keep : \A j \in keep : j <= k
  IN SubSeq(acc, 1, p) \o <<x>> \o SubSeq(acc, p + 1, Len(acc))

\* Array.prototype.sort(cmp): a stable sort (ECMAScript 2019); cmp is the
\* comparator as a function on the pairs of elements of arr
sort(arr, cmp) ==
  LET f[i \in 0..Len(arr)] ==
        IF i = 0 THEN <<>> ELSE insertSorted(f[i - 1], arr[i], cmp)
  IN f[Len(arr)]

\* Array.prototype.shift(): the first element, undefined on an empty array
shift(arr) == IF arr = <<>> THEN undefined ELSE Head(arr)

\* o.result.map(v => { v.frameId = o.frameId; return v; })
stamp(o) ==
  [k \in 1..Len(o.result) |->
     [paused |-> o.result[k].paused, connected |-> o.result[k].connected,
      frameId |-> o.frameId]]

\* (r || []).map(o => o.result.map(...)).flat()
merged(r) ==
  LET f[i \in 0..Len(r)] == IF i = 0 THEN <<>> ELSE f[i - 1] \o stamp(r[i])
  IN f[Len(r)]

\* ....flat().sort(sorting)
ranked(r) ==
  sort(merged(r),
       [p \in Range(merged(r)) \X Range(merged(r)) |-> sorting(p[1], p[2])])

\* const video = ....sort(sorting).shift()
winner(r) == shift(ranked(r))

(***************************************************************************)
(* The activation pipeline: values                                         *)
(***************************************************************************)
Tabs == 1..NTabs

Acts == 1..NActs

\* the frames of a tab: tab 1 holds the main frame 0 and the sub-frames
\* 1..MaxSubFrame, every other tab only its main frame
FramesOf(t) == IF t = 1 THEN 0..MaxSubFrame ELSE {0}

\* a frame of a tab: <<tabId, frameId>>
Places == {<<t, f>> : t \in Tabs, f \in 0..MaxSubFrame} \ 
            {<<t, f>> \in Tabs \X (0..MaxSubFrame) : f \notin FramesOf(t)}

\* the message of the Error thrown when the Ranker finds no winner
MsgNoPlayer == "No player is detected"

\* messages of the failures the browser raises (their text is the browser's)
MsgProbeRejected == "executeScript rejected: cannot access the tab"

MsgNullResult == "TypeError: cannot read properties of null (reading 'map')"

MsgPrefsFailed == "TypeError: cannot read properties of undefined (reading 'block-pip')"

MsgGuardRejected == "executeScript rejected: guard installer could not run in the frame"

MsgActivatorRejected == "executeScript rejected: activator could not run in the frame"

\* e.message of the rejection of video.requestPictureInPicture()
MsgRequestRejected == "NotAllowedError: requestPictureInPicture was rejected"

\* the native Document.prototype.exitPictureInPicture
nativeExit == [base |-> "native", proxies |-> 0]

\* setTimeout never returns 0: self.pipobj.id before the first setTimeout
NoTimer == 0

\* the MAIN world of a frame before any script of the extension ran in it
\* (timers: the pending timers with the time left until each is due; age:
\* the time since the last run of the guard installer, counted up to the
\* grace window; installs: the runs of the guard installer, each with the
\* time since the run before it and the exitPictureInPicture it found;
\* restored: the timer callbacks that have run; logged: whether the proxy's console.info has been written)
freshContext ==
  [exitPictureInPicture |-> nativeExit,
   pipobj |-> undefined,
   timers |-> {},
   nextTimer |-> 1,
   age |-> GraceMs,
   installs |-> {},
   restored |-> {},
   logged |-> FALSE]

\* an invocation of triggerPictureInPicture that has not been dispatched
\* (results: what each frame's probe gave, until r is merged; responded:
\* r.length; candidates: the length of the merged list, -1 before the
\* merge; ran: the guard and activator functions that ran for it; caught:
\* e.message of the error its catch block handled)
freshActivation ==
  [pc |-> "Idle", started |-> FALSE, tab |-> 0, results |-> <<>>,
   responded |-> 0, candidates |-> 0 - 1,
   video |-> undefined, prefs |-> undefined, ran |-> {}, caught |-> ""]

\* the action's icon, badge and title of a tab as the manifest sets them
freshAction == [icon |-> "default", badge |-> "", title |-> ""]

(***************************************************************************)
(* Feedback Signaler                                                       *)
(***************************************************************************)
\* a listener that sets no icon
onMessageIgnores(u, request, sender) == u

\* a listener that also clears the badge of the tab it marks
onMessageClearsBadge(u, request, sender) ==
  IF request.method = "playing"
  THEN [u EXCEPT ![sender.tab].icon = "playing", ![sender.tab].badge = ""]
  ELSE u

\* a listener that switches the icon back and forth
onMessageToggles(u, request, sender) ==
  IF request.method = "playing"
  THEN [u EXCEPT ![sender.tab].icon =
                   IF @ = "playing" THEN "default" ELSE "playing"]
  ELSE u

\* const onMessage = (request, sender) => {...}: chrome.action.setIcon on
\* the sender's tab when request.method is 'playing'
onMessage(u, request, sender) ==
  IF request.method = "playing"
  THEN [u EXCEPT ![sender.tab].icon = "playing"]
  ELSE u

\* a catch block that sets the badge and leaves the title
catchErrorBadgeOnly(u, t, message) == [u EXCEPT ![t].badge = "E"]

\* a catch block that always reports the same title
catchErrorFixedTitle(u, t, message) ==
  [u EXCEPT ![t].badge = "E", ![t].title = "No player is detected"]

\* catch (e) {...}: setBadgeText 'E' and setTitle e.message on the tab
catchError(u, t, message) ==
  [u EXCEPT ![t].badge = "E", ![t].title = message]

(***************************************************************************)
(* Exit-Guard Installer: the function injected into the winner's frame     *)
(***************************************************************************)
\* new Proxy(target, {apply() { return console.info(...) }})
newProxy(target) == [target EXCEPT !.proxies = @ + 1]

\* a clearTimeout that cancels nothing
clearTimeoutKeeps(timers, id) == timers

\* clearTimeout(id): the pending timer of that id, if any, is cancelled
clearTimeout(timers, id) == {tm \in timers : tm.id # id}

\* a setTimeout whose timer is due at once
setTimeoutAtOnce(timers, id, ms) == timers \cup {[id |-> id, left |-> 0]}

\* setTimeout(callback, ms): a pending timer with ms left until it is due
setTimeout(timers, id, ms) == timers \cup {[id |-> id, left |-> ms]}

\* the guard installer without its clearTimeout
guardInstallerNoClear(c) ==
  LET obj == IF c.pipobj # undefined THEN c.pipobj
             ELSE [pointer |-> c.exitPictureInPicture, id |-> NoTimer]
      id == c.nextTimer
  IN [c EXCEPT
        !.pipobj = [obj EXCEPT !.id = id],
        !.timers = setTimeout(c.timers, id, GraceMs),
        !.nextTimer = id + 1,
        !.installs = @ \cup {[id |-> id, gap |-> c.age,
                                before |-> c.exitPictureInPicture]},
        !.age = 0,
        !.exitPictureInPicture = newProxy(c.exitPictureInPicture)]

\* a guard installer that takes a new snapshot of the current function as
\* its pointer on every run
guardInstallerSnapshots(c) ==
  LET obj == [pointer |-> c.exitPictureInPicture,
              id |-> IF c.pipobj # undefined THEN c.pipobj.id ELSE NoTimer]
      id == c.nextTimer
  IN [c EXCEPT
        !.pipobj = [obj EXCEPT !.id = id],
        !.timers = setTimeout(clearTimeout(c.timers, obj.id), id, GraceMs),
        !.nextTimer = id + 1,
        !.installs = @ \cup {[id |-> id, gap |-> c.age,
                                before |-> c.exitPictureInPicture]},
        !.age = 0,
        !.exitPictureInPicture = newProxy(c.exitPictureInPicture)]

\* func of the second executeScript, run in the context c:
\*   self.pipobj = self.pipobj || {pointer: <current exitPictureInPicture>};
\*   clearTimeout(self.pipobj.id);
\*   self.pipobj.id = setTimeout(<restore pointer>, 2000);
\*   Document.prototype.exitPictureInPicture = new Proxy(<current>, ...)
guardInstaller(c) ==
  LET obj == IF c.pipobj # undefined THEN c.pipobj
             ELSE [pointer |-> c.exitPictureInPicture, id |-> NoTimer]
      id == c.nextTimer
  IN [c EXCEPT
        !.pipobj = [obj EXCEPT !.id = id],
        !.timers = setTimeout(clearTimeout(c.timers, obj.id), id, GraceMs),
        !.nextTimer = id + 1,
        !.installs = @ \cup {[id |-> id, gap |-> c.age,
                                before |-> c.exitPictureInPicture]},
        !.age = 0,
        !.exitPictureInPicture = newProxy(c.exitPictureInPicture)]

\* a timer callback that restores what the last installation found
guardExpiryRestoresFound(c, tm) ==
  [c EXCEPT
     !.exitPictureInPicture =
        (CHOOSE i \in c.installs : i.id = c.pipobj.id).before,
     !.timers = @ \ {tm},
     !.restored = @ \cup {[id |-> tm.id, last |-> c.pipobj.id, age |-> c.age]}]

\* a timer callback that leaves the installed proxy in place
guardExpiryLeavesProxy(c, tm) ==
  [c EXCEPT
     !.timers = @ \ {tm},
     !.restored = @ \cup {[id |-> tm.id, last |-> c.pipobj.id, age |-> c.age]}]

\* the timer's callback:
\*   Document.prototype.exitPictureInPicture = self.pipobj.pointer
\* (restored records the timer, the timer of the last installation and the
\* time since that installation)
guardExpiry(c, tm) ==
  [c EXCEPT
     !.exitPictureInPicture = c.pipobj.pointer,
     !.timers = @ \ {tm},
     !.restored = @ \cup {[id |-> tm.id, last |-> c.pipobj.id, age |-> c.age]}]

\* a proxy whose apply trap forwards the call to its target
exitCallForwarded(fn) == "native"

\* a call of document.exitPictureInPicture(): the apply trap of a proxy
\* logs and returns, the native operation runs otherwise
exitCall(fn) == IF fn.proxies > 0 THEN "ignored" ELSE "native"

\* the grace window of the last installation in c is open
inGraceWindow(c) == c.age < GraceMs

\* TickMs pass in the context c
elapse(c) ==
  [c EXCEPT
     !.age = IF @ + TickMs > GraceMs THEN GraceMs ELSE @ + TickMs,
     !.timers = {[id |-> tm.id,
                  left |-> IF tm.left > TickMs THEN tm.left - TickMs ELSE 0] :
                 tm \in @}]

(***************************************************************************)
(* Candidate Prober and PiP Activator: the functions injected into frames  *)
(***************************************************************************)
\* func of the first executeScript: Array.from(es).map(e => ({paused:
\* e.paused, connected: e.isConnected})); es holds the frame's elements
probe(d) == [k \in 1..Len(d.es) |->
               [paused |-> d.es[k].paused, connected |-> d.es[k].connected]]

\* a copy of sorting that orders connected elements first
sortingInFrameConnectedFirst(a, b) ==
  IF a.paused = FALSE /\ b.paused THEN -1
  ELSE IF b.paused = FALSE /\ a.paused THEN 1
  ELSE IF a.connected /\ b.connected = FALSE THEN -1
  ELSE IF b.connected /\ a.connected = FALSE THEN 1
  ELSE 0

\* the Activator's own copy of sorting: it has no final branch, returns
\* undefined on a tie, and sort takes undefined as 0
sortingInFrame(a, b) ==
  IF a.paused = FALSE /\ b.paused THEN -1
  ELSE IF b.paused = FALSE /\ a.paused THEN 1
  ELSE IF a.connected = FALSE /\ b.connected THEN -1
  ELSE IF b.connected = FALSE /\ a.connected THEN 1
  ELSE 0

\* const video = [...es].sort(sorting).shift(), as the index of the element
\* in es (0: no element)
activatorChoice(d) ==
  LET indexed == [k \in 1..Len(d.es) |->
                    [paused |-> d.es[k].paused,
                     connected |-> d.es[k].connected, index |-> k]]
      first == shift(sort(indexed,
                          [p \in Range(indexed) \X Range(indexed) |->
                             sortingInFrame(p[1], p[2])]))
  IN IF first = undefined THEN 0 ELSE first.index

\* an activator that asks for PiP on the first element without testing it
activatorUntested(d) == [d EXCEPT !.request = 1]

\* func of the third executeScript: if (video) video.requestPictureInPicture()
activator(d) ==
  IF activatorChoice(d) = 0 THEN d
  ELSE [d EXCEPT !.request = activatorChoice(d)]

(***************************************************************************)
(* triggerPictureInPicture                                                 *)
(***************************************************************************)
\* results that keep an entry without a result for a frame that could not
\* run the function
injectionResultsKeepOmitted(results) ==
  LET g[i \in 0..MaxSubFrame + 1] ==
        IF i = 0 THEN <<>>
        ELSE IF (i - 1) \in DOMAIN results
             THEN g[i - 1] \o <<[frameId |-> i - 1, result |-> results[i - 1].result,
                                 isNull |-> results[i - 1].status # "ok"]>>
             ELSE g[i - 1]
  IN g[MaxSubFrame + 1]

\* the value the first executeScript resolves to: one InjectionResult per
\* frame that ran the function, in frame order
injectionResults(results) ==
  LET fs == {f \in DOMAIN results : results[f].status # "omitted"}
      g[i \in 0..MaxSubFrame + 1] ==
        IF i = 0 THEN <<>>
        ELSE IF (i - 1) \in fs
             THEN g[i - 1] \o <<[frameId |-> i - 1, result |-> results[i - 1].result,
                                 isNull |-> results[i - 1].status = "null"]>>
             ELSE g[i - 1]
  IN g[MaxSubFrame + 1]

\* a probe that resolves as soon as one frame has settled
allSettledFirst(results) ==
  \E f \in DOMAIN results : results[f].status # "pending"

\* await chrome.scripting.executeScript({target: {allFrames: true}}): the
\* promise resolves when no frame of the tab is pending any more
allSettled(results) ==
  \A f \in DOMAIN results : results[f].status # "pending"

\* o.result.map throws when some frame's result is null
mergeThrows(r) == \E i \in 1..Len(r) : r[i].isNull

\* chrome.storage.local.get({'block-pip': true}, resolve)
storageGet(st) == [block_pip |-> IF st = "unset" THEN TRUE ELSE st = "true"]

\* frameIds: [video.frameId] of target tabId: tab.id
targetOf(a) == <<a.tab, a.video.frameId>>

\* frameIds: [video.frameId] of the second executeScript
guardTarget(a) == <<a.tab, a.video.frameId>>

\* a pipeline that goes on without testing video
hasVideoUntested(v) == TRUE

\* if (video)
hasVideo(v) == v # undefined

\* a pipeline that installs the guard whatever the preference
blockPipIgnored(prefs) == TRUE

\* if (prefs['block-pip'])
blockPip(prefs) == prefs.block_pip

\* a catch block after which the function does not return
returnedNever(l, message) == [l EXCEPT !.caught = message]

\* the locals of an activation whose catch block has run with e.message
returned(l, message) ==
  [l EXCEPT !.pc = "Idle", !.caught = message, !.results = <<>>]

\* the catch block of the activation a, entered with e.message = message
caught(a, message) ==
  /\ ui' = catchError(ui, act[a].tab, message)
  /\ act' = [act EXCEPT ![a] = returned(@, message)]

(***************************************************************************)
(* Spec: the actions of the pipeline                                       *)
(***************************************************************************)
Init ==
  /\ storage \in {"unset", "true", "false"}
  /\ doc \in [Places -> [es : SeqsUpTo(DocumentVideos, MaxEs),
                         request : {0}, pip : {0}, alert : {""}]]
  /\ ctx = [p \in Places |-> freshContext]
  /\ ui = [t \in Tabs |-> freshAction]
  /\ act = [a \in Acts |-> freshActivation]
  /\ rankPc = "off"
  /\ rankR = <<>>
  /\ rankVideo = undefined
  /\ rankVideo2 = undefined
  /\ cs = notRunning
  /\ wf = notRunning

\* contextMenus.onClicked ('pip-video') or commands.onCommand ('toggle-pip')
\* calls triggerPictureInPicture(tab): the first executeScript is issued for
\* all frames of the tab. Activation a is the a-th call.
Dispatch(a, t) ==
  /\ act[a].pc = "Idle" /\ ~act[a].started
  /\ IF a = 1 THEN TRUE ELSE act[a - 1].started
  /\ act' = [act EXCEPT ![a] =
               [@ EXCEPT !.pc = "Probing", !.started = TRUE, !.tab = t,
                         !.results = [f \in FramesOf(t) |->
                                        [status |-> "pending", result |-> <<>>]]]]
  /\ UNCHANGED <<storage, doc, ctx, ui, rankVars, sideVars>>

\* the probe function runs in frame f (ok), the frame cannot execute it and
\* is left out of the results (omitted), or its entry carries no result
\* (null)
ProbeFrame(a, f, status) ==
  /\ act[a].pc = "Probing"
  /\ f \in DOMAIN act[a].results
  /\ act[a].results[f].status = "pending"
  /\ act' = [act EXCEPT ![a].results[f] =
               [status |-> status,
                result |-> IF status = "ok" THEN probe(doc[<<act[a].tab, f>>])
                           ELSE <<>>]]
  /\ UNCHANGED <<storage, doc, ctx, ui, rankVars, sideVars>>

\* the first executeScript rejects: control passes to the catch block
ProbeRejected(a) ==
  /\ act[a].pc = "Probing"
  /\ caught(a, MsgProbeRejected)
  /\ UNCHANGED <<storage, doc, ctx, rankVars, sideVars>>

\* the first executeScript resolves once every frame has settled: merge,
\* sort, shift; with a winner onMessage marks the tab and the preference is
\* requested, without one Error('No player is detected') is thrown
ProbeSettled(a) ==
  /\ act[a].pc = "Probing"
  /\ allSettled(act[a].results)
  /\ LET r == injectionResults(act[a].results)
     IN IF mergeThrows(r)
        THEN /\ ui' = catchError(ui, act[a].tab, MsgNullResult)
             /\ act' = [act EXCEPT ![a] = returned(
                          [@ EXCEPT !.responded = Len(r)], MsgNullResult)]
        ELSE IF ~hasVideo(winner(r))
        THEN /\ ui' = catchError(ui, act[a].tab, MsgNoPlayer)
             /\ act' = [act EXCEPT ![a] = returned(
                          [@ EXCEPT !.responded = Len(r),
                                    !.candidates = Len(merged(r))], MsgNoPlayer)]
        ELSE /\ ui' = onMessage(ui, [method |-> "playing"], [tab |-> act[a].tab])
             /\ act' = [act EXCEPT ![a] =
                          [@ EXCEPT !.responded = Len(r),
                                    !.candidates = Len(merged(r)),
                                    !.video = winner(r),
                                    !.results = <<>>,
                                    !.pc = "Prefs"]]
  /\ UNCHANGED <<storage, doc, ctx, rankVars, sideVars>>

\* chrome.storage.local.get calls back: if (prefs['block-pip']) the guard
\* installer is issued to the winner's frame, else the activator
PrefsRead(a) ==
  /\ act[a].pc = "Prefs"
  /\ act' = [act EXCEPT ![a].prefs = storageGet(storage),
                        ![a].pc = IF blockPip(storageGet(storage))
                                  THEN "GuardInstall" ELSE "Activating"]
  /\ UNCHANGED <<storage, doc, ctx, ui, rankVars, sideVars>>

\* chrome.storage.local.get calls back without a value: reading
\* prefs['block-pip'] throws
PrefsFailed(a) ==
  /\ act[a].pc = "Prefs"
  /\ caught(a, MsgPrefsFailed)
  /\ UNCHANGED <<storage, doc, ctx, rankVars, sideVars>>

\* the second executeScript runs the guard installer in the target frame
\* and resolves: the activator is issued
GuardInstalled(a) ==
  /\ act[a].pc = "GuardInstall"
  /\ ctx' = [ctx EXCEPT ![guardTarget(act[a])] = guardInstaller(@)]
  /\ act' = [act EXCEPT ![a].pc = "Activating",
                        ![a].ran = @ \cup {[script |-> "guard",
                                            place |-> guardTarget(act[a])]}]
  /\ UNCHANGED <<storage, doc, ui, rankVars, sideVars>>

\* the second executeScript rejects (the frame is gone)
GuardRejected(a) ==
  /\ act[a].pc = "GuardInstall"
  /\ caught(a, MsgGuardRejected)
  /\ UNCHANGED <<storage, doc, ctx, rankVars, sideVars>>

\* the third executeScript runs the activator in the winner's frame and
\* resolves: triggerPictureInPicture returns
ActivatorRan(a) ==
  /\ act[a].pc = "Activating"
  /\ doc' = [doc EXCEPT ![targetOf(act[a])] = activator(@)]
  /\ act' = [act EXCEPT ![a].pc = "Idle",
                        ![a].ran = @ \cup {[script |-> "activator",
                                            place |-> targetOf(act[a])]}]
  /\ UNCHANGED <<storage, ctx, ui, rankVars, sideVars>>

\* the third executeScript rejects (the frame is gone)
ActivatorRejected(a) ==
  /\ act[a].pc = "Activating"
  /\ caught(a, MsgActivatorRejected)
  /\ UNCHANGED <<storage, doc, ctx, rankVars, sideVars>>

\* the promise of video.requestPictureInPicture() settles: the element
\* enters PiP, or .catch(e => alert(e.message)) runs in the frame
RequestSettled(p, fulfilled) ==
  /\ doc[p].request # 0
  /\ doc' = [doc EXCEPT ![p] =
               IF fulfilled THEN [@ EXCEPT !.pip = doc[p].request, !.request = 0]
               ELSE [@ EXCEPT !.alert = MsgRequestRejected, !.request = 0]]
  /\ UNCHANGED <<storage, ctx, ui, act, rankVars, sideVars>>

\* a timer of the guard fires, not before it is due
TimerFired(p, tm) ==
  /\ tm \in ctx[p].timers
  /\ tm.left = 0
  /\ ctx' = [ctx EXCEPT ![p] = guardExpiry(@, tm)]
  /\ UNCHANGED <<storage, doc, ui, act, rankVars, sideVars>>

\* the page calls document.exitPictureInPicture() in frame p: the proxy
\* logs, the native operation ends the frame's PiP session
PageExitCall(p) ==
  /\ ctx' = IF exitCall(ctx[p].exitPictureInPicture) = "ignored"
            THEN [ctx EXCEPT ![p].logged = TRUE] ELSE ctx
  /\ doc' = IF exitCall(ctx[p].exitPictureInPicture) = "native"
            THEN [doc EXCEPT ![p].pip = 0] ELSE doc
  /\ UNCHANGED <<storage, ui, act, rankVars, sideVars>>

\* time passes (in every frame alike)
Tick ==
  /\ \E p \in Places : elapse(ctx[p]) # ctx[p]
  /\ ctx' = [p \in Places |-> elapse(ctx[p])]
  /\ UNCHANGED <<storage, doc, ui, act, rankVars, sideVars>>

Next ==
  \/ \E a \in Acts, t \in Tabs : Dispatch(a, t)
  \/ \E a \in Acts, f \in 0..MaxSubFrame, s \in {"ok", "omitted", "null"} :
       ProbeFrame(a, f, s)
  \/ \E a \in Acts : ProbeRejected(a)
  \/ \E a \in Acts : ProbeSettled(a)
  \/ \E a \in Acts : PrefsRead(a)
  \/ \E a \in Acts : PrefsFailed(a)
  \/ \E a \in Acts : GuardInstalled(a)
  \/ \E a \in Acts : GuardRejected(a)
  \/ \E a \in Acts : ActivatorRan(a)
  \/ \E a \in Acts : ActivatorRejected(a)
  \/ \E p \in Places, ok \in BOOLEAN : RequestSettled(p, ok)
  \/ \E p \in Places : \E tm \in ctx[p].timers : TimerFired(p, tm)
  \/ \E p \in Places : PageExitCall(p)
  \/ Tick

Spec == Init /\ [][Next]_vars

(***************************************************************************)
(* SpecRank: the Ranker on every bounded probe result                      *)
(***************************************************************************)


\* the results executeScript can resolve to: one entry per responding frame,
\* no two entries of the same frame. A result is built from the ids of the
\* responding frames (ids), the reported elements (vs) and the frame each
\* element belongs to (own, in frame order); a frame may report no element.
probeResult(ids, vs, own) ==
  [i \in 1..Len(ids) |->
     [frameId |-> ids[i],
      result |-> LET mine == {k \in 1..Len(vs) : own[k] = i}
                     first == IF mine = {} THEN 1
                              ELSE CHOOSE k \in mine : \A j \in mine : k <= j
                 IN [k \in 1..Cardinality(mine) |-> vs[first + k - 1]]]]

\* the sequences of distinct frame ids of at most MaxRankFrames frames
FrameIdSeqs ==
  {ids \in SeqsUpTo(0..MaxFrameId, MaxRankFrames) :
     \A i, j \in 1..Len(ids) : ids[i] = ids[j] => i = j}

\* the ways n elements belong to k frames, in frame order, at most
\* MaxFrameVideos to a frame
Owners(k, n) ==
  {own \in [1..n -> 1..k] :
     /\ \A i \in 1..(n - 1) : own[i] <= own[i + 1]
     /\ \A i \in 1..k :
          Cardinality({j \in 1..n : own[j] = i}) <= MaxFrameVideos}

InitRank ==
  /\ rankPc = "input"
  /\ \E ids \in FrameIdSeqs :
       \E vs \in SeqsUpTo(VideoStates, MaxCandidates) :
         \E own \in Owners(Len(ids), Len(vs)) :
           rankR = probeResult(ids, vs, own)
  /\ rankVideo = undefined
  /\ rankVideo2 = undefined
  /\ storage = "unset"
  /\ doc = [p \in Places |-> [es |-> <<>>, request |-> 0, pip |-> 0, alert |-> ""]]
  /\ ctx = [p \in Places |-> freshContext]
  /\ ui = [t \in Tabs |-> freshAction]
  /\ act = [a \in Acts |-> freshActivation]
  /\ cs = notRunning
  /\ wf = notRunning

\* the Ranker applied to r
RankerRun ==
  /\ rankPc = "input"
  /\ rankVideo' = winner(rankR)
  /\ rankPc' = "ranked"
  /\ UNCHANGED <<rankR, rankVideo2, pipeVars, sideVars>>

\* the Ranker applied to the same r once more
RankerRerun ==
  /\ rankPc = "ranked"
  /\ rankVideo2' = winner(rankR)
  /\ rankPc' = "reranked"
  /\ UNCHANGED <<rankR, rankVideo, pipeVars, sideVars>>

NextRank == RankerRun \/ RankerRerun

SpecRank == InitRank /\ [][NextRank]_vars

(***************************************************************************)
(* Claims about the Ranker, checked under SpecRank                         *)
(***************************************************************************)
\* the flattened candidate list the Ranker sorts
rankList == merged(rankR)

rankHasRun == rankPc \in {"ranked", "reranked"}

\* C1: the comparator orders every playing candidate before every paused
\* one, whatever their connected flags and frame ids, and when the merged
\* list holds a playing candidate the winner is playing.
C1_PlayingOutranksPaused ==
  /\ \A a, b \in Range(rankList) :
       (a.paused = FALSE /\ b.paused = TRUE) =>
         (sorting(a, b) < 0 /\ sorting(b, a) > 0)
  /\ (rankHasRun /\ \E c \in Range(rankList) : c.paused = FALSE) =>
       (rankVideo # undefined /\ rankVideo.paused = FALSE)

\* the winner is playing although a paused, connected candidate of a lower
\* frame precedes a playing, disconnected one in the list
C1_Witness ==
  /\ rankHasRun
  /\ Len(rankList) >= 2
  /\ rankList[1].paused /\ rankList[1].connected
  /\ rankList[2].paused = FALSE /\ rankList[2].connected = FALSE
  /\ rankList[1].frameId < rankList[2].frameId
  /\ rankVideo = rankList[2]

\* C2 (as claimed): among candidates of equal paused value the comparator
\* orders a connected candidate before a disconnected one, and the winner is
\* never disconnected while a connected candidate of its paused value exists.
C2_ConnectedOutranksDisconnected ==
  rankHasRun =>
    /\ \A a, b \in Range(rankList) :
         (a.paused = b.paused /\ a.connected /\ ~b.connected) =>
           sorting(a, b) < 0
    /\ \A c \in Range(rankList) :
         (c.paused = rankVideo.paused /\ c.connected) => rankVideo.connected

\* C3: among candidates of equal paused and equal connected value the
\* comparator orders the lower frame id first, and the winner has the lowest
\* frame id of the candidates that tie with it on (paused, connected).
C3_LowerFrameIdWins ==
  /\ \A a, b \in Range(rankList) :
       (a.paused = b.paused /\ a.connected = b.connected) =>
         /\ (a.frameId < b.frameId <=> sorting(a, b) < 0)
         /\ (a.frameId = b.frameId <=> sorting(a, b) = 0)
  /\ rankHasRun =>
       \A c \in Range(rankList) :
         (c.paused = rankVideo.paused /\ c.connected = rankVideo.connected) =>
           rankVideo.frameId <= c.frameId

\* two candidates tie on (paused, connected), the one of the higher frame is
\* listed first, and the winner is the one of the lower frame
C3_Witness ==
  /\ rankHasRun
  /\ Len(rankList) = 2
  /\ rankList[1].paused = rankList[2].paused
  /\ rankList[1].connected = rankList[2].connected
  /\ rankList[1].frameId > rankList[2].frameId
  /\ rankVideo = rankList[2]

\* the probe result of the scenario: frames 0, 2 and 1, one element each
C4_Frames ==
  << [frameId |-> 0, result |-> <<[paused |-> TRUE, connected |-> TRUE]>>],
     [frameId |-> 2, result |-> <<[paused |-> FALSE, connected |-> TRUE]>>],
     [frameId |-> 1, result |-> <<[paused |-> FALSE, connected |-> FALSE]>>] >>

\* C4 (as claimed): for the candidate list [{paused:true, connected:true,
\* frameId:0}, {paused:false, connected:true, frameId:2}, {paused:false,
\* connected:false, frameId:1}] the winner is the candidate of frame 2.
C4_ScenarioWinnerIsFrame2 ==
  (rankHasRun /\ rankR = C4_Frames) => rankVideo.frameId = 2

sign(n) == IF n < 0 THEN -1 ELSE IF n > 0 THEN 1 ELSE 0

\* C5: the comparator is a total order on the candidates of every list (the
\* sign of sorting(a, b) is the opposite of that of sorting(b, a), it is
\* transitive, and only equal candidates compare equal), the winner is the
\* one least candidate of the list, and a second run of the Ranker on the
\* same input yields the same winner.
C5_TotalDeterministicOrder ==
  /\ \A a, b \in Range(rankList) :
       /\ sign(sorting(a, b)) = 0 - sign(sorting(b, a))
       /\ sorting(a, b) = 0 => a = b
  /\ \A a, b, c \in Range(rankList) :
       (sorting(a, b) <= 0 /\ sorting(b, c) <= 0) => sorting(a, c) <= 0
  /\ (rankHasRun /\ rankList # <<>>) =>
       /\ rankVideo \in Range(rankList)
       /\ \A c \in Range(rankList) :
            /\ sorting(rankVideo, c) <= 0
            /\ sorting(c, rankVideo) <= 0 => c = rankVideo
  /\ (rankHasRun /\ rankList = <<>>) => rankVideo = undefined
  /\ rankPc = "reranked" => rankVideo2 = rankVideo

\* the Ranker has run twice on a list of three distinct candidates whose
\* first element is not the winner
C5_Witness ==
  /\ rankPc = "reranked"
  /\ Len(rankList) = 3
  /\ Cardinality(Range(rankList)) = 3
  /\ rankVideo2 = rankVideo
  /\ rankVideo # rankList[1]

(***************************************************************************)
(* Claims about the pipeline, checked under Spec                           *)
(***************************************************************************)
finished(a) == act[a].started /\ act[a].pc = "Idle"

guardRan(a) == \E e \in act[a].ran : e.script = "guard"

prefsTrue(a) == act[a].prefs # undefined /\ act[a].prefs.block_pip

\* C6: an activation whose merged candidate list is empty has returned
\* without a winner and has run neither the guard installer nor the
\* activator in any frame; an activation that waits for the preference, the
\* guard installer or the activator has a non-empty list.
C6_NoWinnerNeverInstallsNorActivates ==
  \A a \in Acts :
    /\ act[a].candidates = 0 =>
         /\ act[a].pc = "Idle"
         /\ act[a].video = undefined
         /\ act[a].ran = {}
    /\ act[a].pc \in {"Prefs", "GuardInstall", "Activating"} =>
         act[a].candidates > 0

\* frames answered the probe without any element, the activation has
\* returned, and another activation did install a guard meanwhile
C6_Witness ==
  \E a, b \in Acts :
    /\ finished(a) /\ act[a].candidates = 0 /\ act[a].responded > 0
    /\ act[a].ran = {}
    /\ guardRan(b) /\ act[b].tab = act[a].tab

\* C7: the step in which an activation's ranking yields no candidate ends
\* the activation in its catch block with the message "No player is
\* detected": after it the tab's badge text is "E" and its title is that
\* message.
C7_NoCandidateEndsInNoPlayerError ==
  [][\A a \in Acts :
       (act[a].candidates # 0 /\ act'[a].candidates = 0) =>
         /\ act'[a].pc = "Idle"
         /\ act'[a].caught = MsgNoPlayer
         /\ ui'[act[a].tab].badge = "E"
         /\ ui'[act[a].tab].title = MsgNoPlayer]_vars

\* no frame answered the probe, and the tab shows the error
C7_Witness ==
  \E a \in Acts :
    /\ finished(a) /\ act[a].candidates = 0 /\ act[a].responded = 0
    /\ ui[act[a].tab].badge = "E"
    /\ ui[act[a].tab].title = "No player is detected"

\* the guard installer ran for a only with a winner and a true preference,
\* and only in the winner's frame of the invoking tab
guardOnlyWhereDue(a) ==
  \A e \in act[a].ran :
    e.script = "guard" =>
      /\ act[a].video # undefined
      /\ prefsTrue(a)
      /\ e.place = <<act[a].tab, act[a].video.frameId>>

\* C8 (as claimed): in a finished activation the guard installer has run if
\* and only if a winner was found and the preference read is true, and it
\* ran only in the winner's frame of the invoking tab.
C8_GuardRunsIffWinnerAndPreference ==
  \A a \in Acts :
    finished(a) =>
      /\ guardRan(a) <=> (act[a].video # undefined /\ prefsTrue(a))
      /\ guardOnlyWhereDue(a)

\* C8 (amended): the guard installer runs in an activation only if a winner
\* was found and the preference read is true (true when nothing is stored),
\* and only in the winner's frame of the invoking tab, the only place where
\* a guard is installed at all; when a winner was found and the preference
\* read is true, the installer has run before the activator is issued,
\* unless its executeScript was rejected.
C8_GuardRunsOnlyIfAndUnlessRejected ==
  /\ \A a \in Acts :
       /\ guardOnlyWhereDue(a)
       /\ act[a].prefs # undefined =>
            act[a].prefs.block_pip = (storage # "false")
       /\ act[a].pc = "GuardInstall" =>
            (act[a].video # undefined /\ prefsTrue(a) /\ ~guardRan(a))
       /\ ( /\ act[a].video # undefined
            /\ prefsTrue(a)
            /\ \/ act[a].pc = "Activating"
               \/ finished(a) /\ act[a].caught # MsgGuardRejected ) =>
            guardRan(a)
       /\ (finished(a) /\ act[a].caught = MsgGuardRejected) => ~guardRan(a)
  /\ \A p \in Places :
       Cardinality(ctx[p].installs) =
         Cardinality({a \in Acts : [script |-> "guard", place |-> p] \in act[a].ran})

\* with nothing stored, the guard was installed in sub-frame 1 of tab 1, the
\* winner's frame, and nowhere else
C8_Witness ==
  \E a \in Acts :
    /\ storage = "unset"
    /\ finished(a) /\ act[a].caught = ""
    /\ act[a].tab = 1 /\ act[a].video.frameId = 1
    /\ [script |-> "guard", place |-> <<1, 1>>] \in act[a].ran
    /\ ctx[<<1, 1>>].installs # {}
    /\ \A p \in Places \ {<<1, 1>>} : ctx[p].installs = {}

\* C9: in every state in which the grace window of a frame's last guard
\* installation is open, document.exitPictureInPicture is a proxy, so that
\* every call of it is logged and discarded and the native operation does
\* not run.
C9_ExitIgnoredDuringGraceWindow ==
  \A p \in Places :
    inGraceWindow(ctx[p]) =>
      /\ ctx[p].exitPictureInPicture.proxies > 0
      /\ exitCall(ctx[p].exitPictureInPicture) = "ignored"

\* the frame's element is in PiP, the page's call of exitPictureInPicture
\* has been logged and discarded, and the window is still open
C9_Witness ==
  \E p \in Places :
    /\ inGraceWindow(ctx[p])
    /\ ctx[p].age > 0
    /\ ctx[p].logged
    /\ doc[p].pip # 0

\* C10: a timer callback runs only for the last installation and not before
\* the full grace window has passed since it; the timer of an installation
\* that was followed by another one within the window never fires, so two
\* such installations give one restoration; the pending timer is that of
\* the last installation and is due a grace window after it.
C10_ReinstallDebouncesRestoration ==
  \A p \in Places :
    /\ \A r \in ctx[p].restored :
         /\ r.id = r.last
         /\ r.age = GraceMs
         /\ \A q \in ctx[p].restored : q.id = r.id => q = r
    /\ \A i \in ctx[p].installs :
         (i.id > 1 /\ i.gap < GraceMs) =>
           ~\E r \in ctx[p].restored : r.id = i.id - 1
    /\ \A tm \in ctx[p].timers :
         /\ tm.id = ctx[p].pipobj.id
         /\ tm.left = GraceMs - ctx[p].age

\* two installations in one frame, the second within the window of the
\* first (but not at once), and one restoration: that of the second
C10_Witness ==
  \E p \in Places :
    /\ \E i \in ctx[p].installs : i.id = 2 /\ i.gap > 0 /\ i.gap < GraceMs
    /\ ctx[p].restored = {[id |-> 2, last |-> 2, age |-> GraceMs]}
    /\ ctx[p].timers = {}
    /\ ctx[p].exitPictureInPicture = nativeExit

(***************************************************************************)
(* Claims about the exit guard across installations, checked under Spec    *)
(***************************************************************************)
\* C11: under every interleaving of guard installations and timer firings
\* a frame has at most one pending guard-expiry timer, and it is the timer
\* of the newest installation in that frame.
C11_AtMostOnePendingTimer ==
  \A p \in Places :
    /\ Cardinality(ctx[p].timers) <= 1
    /\ \A tm \in ctx[p].timers : \A i \in ctx[p].installs : i.id <= tm.id

\* two overlapping activations of one tab have both installed the guard in
\* the same frame, neither has returned, and one timer is pending
C11_Witness ==
  \E a, b \in Acts :
    /\ a # b
    /\ act[a].pc = "Activating" /\ act[b].pc = "Activating"
    /\ guardRan(a) /\ guardRan(b)
    /\ guardTarget(act[a]) = guardTarget(act[b])
    /\ Cardinality(ctx[guardTarget(act[a])].installs) = 2
    /\ Cardinality(ctx[guardTarget(act[a])].timers) = 1

\* C12 (as claimed): the installed exitPictureInPicture is never a proxy
\* around a proxy: at most one wrapper lies around the native function.
C12_NoStackedWrappers ==
  \A p \in Places : ctx[p].exitPictureInPicture.proxies <= 1

\* the installation that armed the timer self.pipobj.id
lastInstall(c) == CHOOSE i \in c.installs : i.id = c.pipobj.id

\* the first installation in the context
firstInstall(c) == CHOOSE i \in c.installs : i.id = 1

\* the timer of the last installation has fired: its window expired with no
\* installation after it
lastRestored(c) ==
  /\ c.pipobj # undefined
  /\ \E r \in c.restored : r.id = c.pipobj.id

\* C13 (as claimed): once the window of an installation has expired with no
\* re-installation, exitPictureInPicture is the function the installation
\* found in place.
C13_ExpiryRestoresWhatInstallFound ==
  \A p \in Places :
    lastRestored(ctx[p]) =>
      ctx[p].exitPictureInPicture = lastInstall(ctx[p]).before

\* C13 (amended): once the window of an installation has expired with no
\* re-installation, exitPictureInPicture is the function that was in place
\* before the first installation in the frame, and a call of it runs the
\* native operation; so the installation followed by its expiry changes
\* nothing when it found that function in place (no guard was live).
C13_ExpiryRestoresPreFirstInstall ==
  \A p \in Places :
    lastRestored(ctx[p]) =>
      /\ ctx[p].exitPictureInPicture = firstInstall(ctx[p]).before
      /\ exitCall(ctx[p].exitPictureInPicture) =
           exitCall(firstInstall(ctx[p]).before)
      /\ lastInstall(ctx[p]).before.proxies = 0 =>
           ctx[p].exitPictureInPicture = lastInstall(ctx[p]).before

\* one installation, a call of the page was ignored during its window, the
\* window expired and the native function is back
C13_Witness ==
  \E p \in Places :
    /\ Cardinality(ctx[p].installs) = 1
    /\ lastRestored(ctx[p])
    /\ ctx[p].logged
    /\ ctx[p].exitPictureInPicture = nativeExit

\* C14: whenever no guard timer is pending in a frame, its
\* exitPictureInPicture is the native function itself, not a proxy, and the
\* pointer the installer keeps is that function too.
C14_NoTimerMeansOriginal ==
  \A p \in Places :
    /\ ctx[p].timers = {} => ctx[p].exitPictureInPicture = nativeExit
    /\ ctx[p].pipobj # undefined => ctx[p].pipobj.pointer = nativeExit

\* the guard was installed again within the window of an earlier
\* installation, the last timer has fired and the native function is back
C14_Witness ==
  \E p \in Places :
    /\ \E i \in ctx[p].installs : i.id = 2 /\ i.gap < GraceMs /\ i.before.proxies = 1
    /\ lastRestored(ctx[p])
    /\ ctx[p].timers = {}
    /\ ctx[p].exitPictureInPicture = nativeExit

(***************************************************************************)
(* Claims about failures and ordering in the pipeline, checked under Spec  *)
(***************************************************************************)
\* C15 (as claimed): when the native request of the Activator has been
\* rejected in a frame, the badge of the frame's tab is "E" and its title is
\* the message of the rejection.
C15_RejectedRequestSetsBadgeAndTitle ==
  \A p \in Places :
    doc[p].alert # "" =>
      /\ ui[p[1]].badge = "E"
      /\ ui[p[1]].title = doc[p].alert

\* the messages of the failures raised inside triggerPictureInPicture by
\* the operations it awaits
awaitedFailures ==
  {MsgProbeRejected, MsgNullResult, MsgPrefsFailed, MsgGuardRejected,
   MsgActivatorRejected}

\* the stage of the pipeline in which a failure of that message is raised
stageOf(message) ==
  CASE message = MsgProbeRejected -> "Probing"
    [] message = MsgNullResult -> "Probing"
    [] message = MsgNoPlayer -> "Probing"
    [] message = MsgPrefsFailed -> "Prefs"
    [] message = MsgGuardRejected -> "GuardInstall"
    [] message = MsgActivatorRejected -> "Activating"

Reverse(s) == [i \in 1..Len(s) |-> s[Len(s) + 1 - i]]

\* C18: the step in which an activation leaves the probe to rank is taken
\* only when no frame of the tab is pending any more, and the winner does
\* not depend on the order of the frames' results; an activation that waits
\* for the preference, the guard installer or the activator, or has run one
\* of the two scripts, has ranked and holds its winner, which the scripts
\* do not change.
C18_ProbeThenRankThenInject ==
  [][\A a \in Acts :
       /\ ( /\ act[a].pc = "Probing" /\ act'[a].pc # "Probing"
            /\ act'[a].caught # MsgProbeRejected ) =>
            /\ DOMAIN act[a].results = FramesOf(act[a].tab)
            /\ \A f \in DOMAIN act[a].results :
                 act[a].results[f].status # "pending"
            /\ act'[a].candidates >= 0 =>
                 /\ act'[a].video = winner(injectionResults(act[a].results))
                 /\ act'[a].video =
                      winner(Reverse(injectionResults(act[a].results)))
       /\ act'[a].pc \in {"Prefs", "GuardInstall", "Activating"} =>
            (act'[a].candidates > 0 /\ act'[a].video # undefined)
       /\ act'[a].ran # act[a].ran =>
            /\ act[a].candidates > 0
            /\ act[a].video # undefined
            /\ act'[a].video = act[a].video]_vars

\* both frames of tab 1 answered the probe, the winner is in the sub-frame,
\* and guard and activator ran there
C18_Witness ==
  \E a \in Acts :
    /\ finished(a) /\ act[a].caught = ""
    /\ act[a].tab = 1
    /\ act[a].responded = Cardinality(FramesOf(1))
    /\ act[a].video.frameId = 1
    /\ act[a].ran = {[script |-> "guard", place |-> <<1, 1>>],
                     [script |-> "activator", place |-> <<1, 1>>]}

C20_InjectionFailureNotSurfaced ==
  \A t \in Tabs :
    ui[t].badge = "E" =>
      ui[t].title \notin {MsgGuardRejected, MsgActivatorRejected}

(***************************************************************************)
(* SpecLive: the pipeline when every awaited operation settles             *)
(***************************************************************************)
\* every operation the activation a awaits eventually settles, by resolving
\* or by rejecting: the probe in each frame and as a whole, the preference
\* read, the guard installer's executeScript and the activator's
Settles(a) ==
  /\ WF_vars(\E f \in 0..MaxSubFrame, s \in {"ok", "omitted", "null"} :
               ProbeFrame(a, f, s))
  /\ WF_vars(ProbeSettled(a) \/ ProbeRejected(a))
  /\ WF_vars(PrefsRead(a) \/ PrefsFailed(a))
  /\ WF_vars(GuardInstalled(a) \/ GuardRejected(a))
  /\ WF_vars(ActivatorRan(a) \/ ActivatorRejected(a))

\* the initial states of Spec in which only the frames of tab 1 hold video
\* elements, all of them playing, and the preference is unset or false
InitLive ==
  /\ Init
  /\ storage \in {"unset", "false"}
  /\ \A p \in Places :
       /\ p[1] # 1 => doc[p].es = <<>>
       /\ \A k \in 1..Len(doc[p].es) : ~doc[p].es[k].paused

SpecLive == InitLive /\ [][Next]_vars /\ \A a \in Acts : Settles(a)

\* C17: every activation that has left Idle eventually is back in Idle,
\* whichever of its stages (Probing, Prefs, GuardInstall, Activating) it is
\* in, given that every operation it awaits settles.
C17_EveryActivationReturnsToIdle ==
  \A a \in Acts : (act[a].pc # "Idle") ~> (act[a].pc = "Idle")

\* one activation has returned after its activator ran, another one from
\* its catch block
C17_Witness ==
  \E a, b \in Acts :
    /\ finished(a) /\ act[a].caught = ""
    /\ [script |-> "activator", place |-> targetOf(act[a])] \in act[a].ran
    /\ finished(b) /\ act[b].caught # ""

C30_WinnerIndependentOfOrder ==
  rankHasRun =>
    \A f \in Permutations(1..Len(rankList)) :
      LET perm == [i \in 1..Len(rankList) |-> rankList[f[i]]]
      IN shift(sort(perm, [p \in Range(perm) \X Range(perm) |->
                             sorting(p[1], p[2])])) = rankVideo

\* three candidates, no two alike, and the winner is the last of the list
C30_Witness ==
  /\ rankHasRun
  /\ Len(rankList) = 3
  /\ Cardinality(Range(rankList)) = 3
  /\ rankVideo = rankList[3]

(***************************************************************************)
(* Further claims about the pipeline, checked under Spec                   *)
(***************************************************************************)
\* C25 (as claimed): on a tab where some activation has returned, none is
\* running and no guard timer is pending, the badge and the title are those
\* of a tab that was never activated and every frame's exitPictureInPicture
\* is the native function.
C25_NothingCarriedOver ==
  \A t \in Tabs :
    ( /\ \E a \in Acts : finished(a) /\ act[a].tab = t
      /\ \A a \in Acts : act[a].tab = t => act[a].pc = "Idle"
      /\ \A f \in FramesOf(t) : ctx[<<t, f>>].timers = {} ) =>
      /\ ui[t].badge = freshAction.badge
      /\ ui[t].title = freshAction.title
      /\ \A f \in FramesOf(t) : ctx[<<t, f>>].exitPictureInPicture = nativeExit

\* C29: the step in which an activation's guard installer runs finds the
\* tab marked playing and issues no request; the step in which its
\* activator runs, the only one that calls requestPictureInPicture, finds
\* the tab marked playing and, when the preference read is true, the guard
\* installer already run in the same frame.
C29_MarkThenGuardThenRequest ==
  [][\A a \in Acts :
       /\ (~guardRan(a) /\ guardRan(a)') =>
            /\ ui[act[a].tab].icon = "playing"
            /\ \A e \in act[a].ran : e.script # "activator"
            /\ doc' = doc
       /\ act'[a].ran \ act[a].ran # {} /\ ~(~guardRan(a) /\ guardRan(a)') =>
            /\ ui[act[a].tab].icon = "playing"
            /\ prefsTrue(a) =>
                 /\ [script |-> "guard", place |-> targetOf(act[a])] \in act[a].ran
                 /\ ctx[targetOf(act[a])].installs # {}
       /\ doc' # doc /\ act'[a] # act[a] =>
            [script |-> "activator", place |-> targetOf(act[a])]
              \in act'[a].ran \ act[a].ran
       /\ act'[a].pc \in {"GuardInstall", "Activating"} =>
            ui'[act'[a].tab].icon = "playing"]_vars

\* with the preference stored as true, the guard was installed and then
\* the request issued in the winner's frame; the request is still pending
C29_Witness ==
  \E a \in Acts :
    /\ storage = "true"
    /\ finished(a) /\ guardRan(a)
    /\ doc[targetOf(act[a])].request # 0
    /\ ctx[targetOf(act[a])].exitPictureInPicture.proxies > 0
    /\ ui[act[a].tab].icon = "playing"

(***************************************************************************)
(* SpecSignal: the Feedback Signaler alone. Only ui changes: the listener  *)
(* registered by chrome.runtime.onMessage.addListener(onMessage) receives  *)
(* messages from the tabs, and failed activations signal their error.      *)
(***************************************************************************)
\* request.method of the messages the extension's pages send
Methods == {"playing", "other"}

\* e.message of the errors the catch block can handle
Messages ==
  {MsgNoPlayer, MsgProbeRejected, MsgNullResult, MsgPrefsFailed,
   MsgGuardRejected, MsgActivatorRejected}

InitSignal ==
  /\ ui = [t \in Tabs |-> freshAction]
  /\ storage = "unset"
  /\ doc = [p \in Places |-> [es |-> <<>>, request |-> 0, pip |-> 0, alert |-> ""]]
  /\ ctx = [p \in Places |-> freshContext]
  /\ act = [a \in Acts |-> freshActivation]
  /\ rankPc = "off"
  /\ rankR = <<>>
  /\ rankVideo = undefined
  /\ rankVideo2 = undefined
  /\ cs = notRunning
  /\ wf = notRunning

\* chrome.runtime.onMessage delivers a message of tab t to onMessage
MessageReceived(t, method) ==
  /\ ui' = onMessage(ui, [method |-> method], [tab |-> t])
  /\ UNCHANGED <<storage, doc, ctx, act, rankVars, sideVars>>

\* an activation on tab t ends in its catch block with e.message = message
ErrorSignalled(t, message) ==
  /\ ui' = catchError(ui, t, message)
  /\ UNCHANGED <<storage, doc, ctx, act, rankVars, sideVars>>

NextSignal ==
  \/ \E t \in Tabs : \E method \in Methods : MessageReceived(t, method)
  \/ \E t \in Tabs : \E message \in Messages : ErrorSignalled(t, message)

SpecSignal == InitSignal /\ [][NextSignal]_vars

\* markPlaying(tabId): onMessage called with {method: 'playing'} for the tab
markPlaying(u, t) == onMessage(u, [method |-> "playing"], [tab |-> t])

\* C22: for every tab and every UI state, applying markPlaying two or three
\* times in a row leaves icon, badge and title of every tab exactly as one
\* application does, and one application changes nothing but the tab's icon
C22_MarkPlayingIdempotent ==
  \A t \in Tabs :
    /\ markPlaying(markPlaying(ui, t), t) = markPlaying(ui, t)
    /\ markPlaying(markPlaying(markPlaying(ui, t), t), t) = markPlaying(ui, t)
    /\ markPlaying(ui, t) = [ui EXCEPT ![t].icon = "playing"]

\* a tab that was marked playing and carries an error signal: a further
\* markPlaying acts on a state where every visible field is set
C22_Witness ==
  \E t \in Tabs :
    /\ ui[t].icon = "playing"
    /\ ui[t].badge = "E"
    /\ ui[t].title # ""

(***************************************************************************)
(* SpecContent: the content script of a frame (src/unnamed/part_001) and   *)
(* the popup's playlist functions that message it (popup.js). cs holds     *)
(*   frames   the frames the popup talks to: frames[1] is the frame of the *)
(*            current tab, the others belong to the tabs pipVideo created; *)
(*   popup    the popup: its stored playlist, the getVideoInfo exchange of *)
(*            addCurrentVideo, the pending 3000 ms timers of pipVideo;     *)
(*   infos    one entry per getVideoInfo request the content script        *)
(*            handled: the document it saw and its sendResponse calls;     *)
(*   direct   the number of triggerPip messages sent by other senders.     *)
(***************************************************************************)
\* at most this many video elements in a frame's document
MaxVideos == 2
\* currentTime and timestamp are 0..MaxSeconds (whole seconds)
MaxSeconds == 1
\* pipVideo creates at most this many tabs
MaxOpened == 1
\* at most this many triggerPip messages from senders other than pipVideo
MaxMessages == 1
\* addCurrentVideo is clicked at most this many times
MaxAdds == 2

\* an HTMLVideoElement of a document: its duration is above any currentTime
ContentVideos ==
  [paused : BOOLEAN, currentTime : 0..MaxSeconds,
   duration : {MaxSeconds + 1}]

\* the elements of a page that has just been loaded into a created tab
LoadedVideos == {v \in ContentVideos : v.currentTime = 0}

\* {action: "triggerPip", timestamp?: number}
Requests ==
  {[action |-> "triggerPip"]}
    \cup {[action |-> "triggerPip", timestamp |-> s] : s \in 0..MaxSeconds}

\* the frame of a tab whose document holds the elements es
frameOf(es, enabled) ==
  [es |-> es, pipEnabled |-> enabled, exitPictureInPicture |-> nativeExit,
   timers |-> <<>>, calls |-> <<>>, events |-> <<>>]

\* a find that returns the first element whatever the predicate
findFirst(videoList) == IF videoList = <<>> THEN undefined ELSE videoList[1]

\* videoList.find(v => !v.paused): the first element that is not paused,
\* undefined when there is none
find(videoList) ==
  LET f[i \in 0..Len(videoList)] ==
        IF i = 0 THEN undefined
        ELSE IF f[i - 1] # undefined THEN f[i - 1]
        ELSE IF ~videoList[i].paused THEN videoList[i]
        ELSE undefined
  IN f[Len(videoList)]

\* videoList[0]: undefined on an empty array
firstVideo(videoList) == IF videoList = <<>> THEN undefined ELSE videoList[1]

\* request.action === "getVideoInfo": the sendResponse calls of the handler
getVideoInfo(es) ==
  LET playingVideo == IF find(es) # undefined THEN find(es) ELSE firstVideo(es)
  IN IF playingVideo # undefined
     THEN <<[success |-> TRUE, currentTime |-> playingVideo.currentTime,
             duration |-> playingVideo.duration,
             paused |-> playingVideo.paused]>>
     ELSE <<[success |-> FALSE, message |-> "No video found on the page"]>>

\* if (request.timestamp): absent, undefined and 0 are falsy
truthy(request) ==
  IF "timestamp" \in DOMAIN request THEN request.timestamp # 0 ELSE FALSE

\* request.action === "triggerPip": the handler sets the 2000 ms timer when
\* the timestamp is truthy; calls keeps the request, its sender and the
\* document it met
triggerPip(fr, request, sender) ==
  LET m == Len(fr.calls) + 1
  IN [fr EXCEPT
        !.calls = Append(@, [request |-> request, sender |-> sender,
                             es |-> fr.es]),
        !.timers = IF truthy(request)
                   THEN Append(@, [kind |-> "seek", m |-> m,
                                   timestamp |-> request.timestamp,
                                   video |-> 0])
                   ELSE @]

\* the timers of one kind that are pending, as their positions in timers
pending(fr, kind) == {k \in 1..Len(fr.timers) : fr.timers[k].kind = kind}

\* the timer of its kind that was set first
oldest(fr, kind) ==
  CHOOSE k \in pending(fr, kind) : \A j \in pending(fr, kind) : k <= j

\* timers without the one at position k
without(timers, k) ==
  SubSeq(timers, 1, k - 1) \o SubSeq(timers, k + 1, Len(timers))

\* the callback of the 2000 ms timer: video = videoList[0]; if (video) {
\* video.currentTime = request.timestamp; video.play(); setTimeout(..., 500) }
\* (played: whether play() started the playback)
seekCallback(fr, k, played) ==
  LET tm == fr.timers[k]
      video == firstVideo(fr.es)
  IN IF video = undefined
     THEN [fr EXCEPT !.timers = without(@, k)]
     ELSE [fr EXCEPT
             !.es[1].currentTime = tm.timestamp,
             !.es[1].paused = IF played THEN FALSE ELSE @,
             !.events = Append(@, [e |-> "seek", m |-> tm.m, video |-> 1,
                                   to |-> tm.timestamp, es |-> fr.es]),
             !.timers = Append(without(@, k),
                               [kind |-> "pip", m |-> tm.m,
                                timestamp |-> tm.timestamp, video |-> 1])]

\* the callback of the 500 ms timer: if (document.pictureInPictureEnabled)
\* video.requestPictureInPicture()
pipCallback(fr, k) ==
  LET tm == fr.timers[k]
  IN IF fr.pipEnabled
     THEN [fr EXCEPT
             !.timers = without(@, k),
             !.events = Append(@, [e |-> "request", m |-> tm.m,
                                   video |-> tm.video,
                                   to |-> tm.timestamp, es |-> fr.es])]
     ELSE [fr EXCEPT !.timers = without(@, k)]

\* timestamp: response.currentTime || 0
orZero(currentTime) == IF currentTime # 0 THEN currentTime ELSE 0

\* the url of the current tab
CurrentUrl == "https://example.org/watch"

\* handleVideoInfo(response): the playlist after it
handleVideoInfo(playlist, response) ==
  IF ~response.success THEN playlist
  ELSE IF \E k \in 1..Len(playlist) : playlist[k].url = CurrentUrl
  THEN playlist
  ELSE Append(playlist, [url |-> CurrentUrl,
                         timestamp |-> orZero(response.currentTime)])

\* handleVideoInfo(response): the text of its alert, "" when it shows none
alertOf(playlist, response) ==
  IF ~response.success THEN "No video found on current page"
  ELSE IF \E k \in 1..Len(playlist) : playlist[k].url = CurrentUrl
  THEN "This video is already in your playlist"
  ELSE ""

InitContent ==
  /\ \E es \in SeqsUpTo(ContentVideos, MaxVideos) :
       \E enabled \in BOOLEAN : \E listening \in BOOLEAN :
         cs = [running |-> TRUE,
               frames |-> <<frameOf(es, enabled)>>,
               listening |-> listening,
               popup |-> [pc |-> "idle", playlist |-> <<>>, adds |-> 0,
                          response |-> undefined, alert |-> "",
                          timers |-> <<>>],
               infos |-> <<>>,
               direct |-> 0]
  /\ storage \in {"unset", "false"}
  /\ doc = [p \in Places |-> [es |-> <<>>, request |-> 0, pip |-> 0, alert |-> ""]]
  /\ ctx = [p \in Places |-> freshContext]
  /\ ui = [t \in Tabs |-> freshAction]
  /\ act = [a \in Acts |-> freshActivation]
  /\ rankPc = "off"
  /\ rankR = <<>>
  /\ rankVideo = undefined
  /\ rankVideo2 = undefined
  /\ wf = notRunning

\* addCurrentVideo: chrome.tabs.sendMessage(currentTab.id, {action:
\* "getVideoInfo"}, ...); chrome.runtime.lastError is set when no content
\* script listens in the tab
AddCurrentVideo ==
  /\ cs.popup.pc = "idle"
  /\ cs.popup.adds < MaxAdds
  /\ cs' = [cs EXCEPT !.popup.adds = @ + 1,
                      !.popup.pc = IF cs.listening THEN "asked"
                                   ELSE "injecting"]
  /\ UNCHANGED <<pipeVars, rankVars, wf>>

\* chrome.scripting.executeScript({files: ['content.js']}, () =>
\* setTimeout(() => chrome.tabs.sendMessage(..., handleVideoInfo), 100))
ContentInjected ==
  /\ cs.popup.pc = "injecting"
  /\ cs' = [cs EXCEPT !.listening = TRUE, !.popup.pc = "asked"]
  /\ UNCHANGED <<pipeVars, rankVars, wf>>

\* the content script of the current tab handles the getVideoInfo request
GetVideoInfo ==
  /\ cs.popup.pc = "asked"
  /\ cs' = [cs EXCEPT
              !.infos = Append(@, [es |-> cs.frames[1].es,
                                   responses |-> getVideoInfo(cs.frames[1].es)]),
              !.popup.response = getVideoInfo(cs.frames[1].es)[1],
              !.popup.pc = "answered"]
  /\ UNCHANGED <<pipeVars, rankVars, wf>>

\* handleVideoInfo(response) in the popup, with its storage callbacks
HandleVideoInfo ==
  /\ cs.popup.pc = "answered"
  /\ cs' = [cs EXCEPT
              !.popup.playlist = handleVideoInfo(@, cs.popup.response),
              !.popup.alert = alertOf(cs.popup.playlist, cs.popup.response),
              !.popup.response = undefined,
              !.popup.pc = "idle"]
  /\ UNCHANGED <<pipeVars, rankVars, wf>>

\* pipVideo(index): chrome.tabs.create({url: video.url}, tab => setTimeout(
\* () => chrome.tabs.sendMessage(tab.id, {action: 'triggerPip', timestamp:
\* video.timestamp}), 3000)); es: the document the created tab loads
PipVideo(index, es, enabled) ==
  /\ index \in 1..Len(cs.popup.playlist)
  /\ Len(cs.frames) < 1 + MaxOpened
  /\ cs' = [cs EXCEPT
              !.frames = Append(@, frameOf(es, enabled)),
              !.popup.timers =
                 Append(@, [tab |-> Len(cs.frames) + 1,
                            timestamp |-> cs.popup.playlist[index].timestamp])]
  /\ UNCHANGED <<pipeVars, rankVars, wf>>

\* the 3000 ms timer of pipVideo expires: the message reaches the content
\* script of the created tab
SendTimerFired ==
  /\ cs.popup.timers # <<>>
  /\ LET tm == Head(cs.popup.timers)
     IN cs' = [cs EXCEPT
                 !.popup.timers = Tail(@),
                 !.frames[tm.tab] =
                    triggerPip(@, [action |-> "triggerPip",
                                   timestamp |-> tm.timestamp], "popup")]
  /\ UNCHANGED <<pipeVars, rankVars, wf>>

\* a triggerPip message of another sender reaches the content script of f
TriggerPipReceived(f, request) ==
  /\ cs.direct < MaxMessages
  /\ cs' = [cs EXCEPT !.direct = @ + 1,
                      !.frames[f] = triggerPip(@, request, "other")]
  /\ UNCHANGED <<pipeVars, rankVars, wf>>

\* the oldest 2000 ms timer of frame f expires
SeekTimerFired(f, played) ==
  /\ pending(cs.frames[f], "seek") # {}
  /\ cs' = [cs EXCEPT !.frames[f] =
                         seekCallback(@, oldest(cs.frames[f], "seek"), played)]
  /\ UNCHANGED <<pipeVars, rankVars, wf>>

\* the oldest 500 ms timer of frame f expires
PipTimerFired(f) ==
  /\ pending(cs.frames[f], "pip") # {}
  /\ cs' = [cs EXCEPT !.frames[f] =
                         pipCallback(@, oldest(cs.frames[f], "pip"))]
  /\ UNCHANGED <<pipeVars, rankVars, wf>>

NextContent ==
  \/ AddCurrentVideo
  \/ ContentInjected
  \/ GetVideoInfo
  \/ HandleVideoInfo
  \/ \E index \in 1..MaxAdds :
       \E es \in SeqsUpTo(LoadedVideos, MaxVideos) :
         \E enabled \in BOOLEAN : PipVideo(index, es, enabled)
  \/ SendTimerFired
  \/ \E f \in 1..(1 + MaxOpened) : \E request \in Requests :
       f <= Len(cs.frames) /\ TriggerPipReceived(f, request)
  \/ \E f \in 1..(1 + MaxOpened) : \E played \in BOOLEAN :
       f <= Len(cs.frames) /\ SeekTimerFired(f, played)
  \/ \E f \in 1..(1 + MaxOpened) :
       f <= Len(cs.frames) /\ PipTimerFired(f)

SpecContent == InitContent /\ [][NextContent]_vars

\* the position in es of the first element that is not paused, or 1 when
\* all are paused
reported(es) ==
  IF \E k \in 1..Len(es) : ~es[k].paused
  THEN CHOOSE k \in 1..Len(es) :
         ~es[k].paused /\ \A j \in 1..(k - 1) : es[j].paused
  ELSE 1

eventsOf(fr, e, m) ==
  {k \in 1..Len(fr.events) : fr.events[k].e = e /\ fr.events[k].m = m}

\* C23: every triggerPip message that reached a frame whose document held
\* a video (and where PiP is enabled), with or without a timestamp, is on
\* its way to a PiP request (one of its timers is pending) or has made it,
\* and a request made for a message with a timestamp comes after the seek
\* to that timestamp
C23_EveryTriggerPipRequestsPip ==
  \A f \in 1..Len(cs.frames) :
    LET fr == cs.frames[f]
    IN \A m \in 1..Len(fr.calls) :
         /\ (Len(fr.calls[m].es) >= 1 /\ fr.pipEnabled) =>
              \/ \E k \in 1..Len(fr.timers) : fr.timers[k].m = m
              \/ eventsOf(fr, "request", m) # {}
         /\ \A k \in eventsOf(fr, "request", m) :
              \E j \in eventsOf(fr, "seek", m) :
                /\ j < k
                /\ fr.events[j].to = fr.calls[m].request.timestamp

\* the document of a frame as the injected functions of the pipeline see
\* it: the elements querySelectorAll finds are connected
asPipelineDocument(es) ==
  [es |-> [k \in 1..Len(es) |->
             [paused |-> es[k].paused, connected |-> TRUE]],
   request |-> 0, pip |-> 0, alert |-> ""]

\* C26: in a tab that the playlist's PiP action created, the video on which
\* PiP is requested is the one the pipeline would select among the videos
\* of the document at the time of the selection, and the exit guard is in
\* place when the block-pip preference asks for it
C26_PlaylistPipUsesPipeline ==
  \A f \in 2..Len(cs.frames) :
    LET fr == cs.frames[f]
    IN \A k \in 1..Len(fr.events) :
         (/\ fr.events[k].e = "request"
          /\ fr.calls[fr.events[k].m].sender = "popup") =>
           /\ \A j \in eventsOf(fr, "seek", fr.events[k].m) :
                fr.events[k].video =
                  activatorChoice(asPipelineDocument(fr.events[j].es))
           /\ blockPip(storageGet(storage)) =>
                fr.exitPictureInPicture.proxies > 0

(***************************************************************************)
(* SpecWorkflow: the genworkflow script. wf holds the value of --skip-steps *)
(* as a sequence of pieces of text (a step's name, a step's number or a    *)
(* comma), the array SKIP, the position in the script, the steps whose     *)
(* block was entered, what each of them met, the exit status (-1 while the *)
(* script runs), whether the user confirmed the configuration and whether  *)
(* the summary was printed.                                                *)
(***************************************************************************)
\* --skip-steps holds at most this many pieces
MaxSkipLen == 3

\* the steps of run_workflow
Steps == 1..4

\* the first argument of should_skip at each step
stepName(n) ==
  CASE n = 1 -> "scrape" [] n = 2 -> "download"
    [] n = 3 -> "process" [] n = 4 -> "visualize"

\* the second argument of should_skip at each step
stepNumber(n) == CASE n = 1 -> "1" [] n = 2 -> "2" [] n = 3 -> "3" [] n = 4 -> "4"

\* the pieces a value of --skip-steps is made of
Pieces ==
  {stepName(n) : n \in Steps} \cup {stepNumber(n) : n \in Steps} \cup {","}

\* what the block of a step can meet: its command exits with 0 ("ok"), one
\* of its commands or checks fails ("failed"), or the graph file it needs
\* does not exist ("nograph", steps 2 and 4)
Outcomes(n) ==
  IF n \in {2, 4} THEN {"ok", "failed", "nograph"} ELSE {"ok", "failed"}

\* IFS=',' read -ra SKIP <<< "$skip_steps": every comma ends a field, the
\* text after the last comma is a field unless it is empty; a field is the
\* sequence of the pieces between two commas
split(s) ==
  LET f[i \in 0..Len(s)] ==
        IF i = 0 THEN [fields |-> <<>>, cur |-> <<>>]
        ELSE IF s[i] = ","
        THEN [fields |-> Append(f[i - 1].fields, f[i - 1].cur), cur |-> <<>>]
        ELSE [fields |-> f[i - 1].fields, cur |-> Append(f[i - 1].cur, s[i])]
  IN IF f[Len(s)].cur = <<>> THEN f[Len(s)].fields
     ELSE Append(f[Len(s)].fields, f[Len(s)].cur)

\* a should_skip that compares with the name only
should_skipByName(SKIP, step_name, step_number) ==
  \E k \in 1..Len(SKIP) : SKIP[k] = <<step_name>>

\* should_skip: [ "$step" == "$step_name" ] || [ "$step" == "$step_number" ]
\* for some element of SKIP
should_skip(SKIP, step_name, step_number) ==
  \E k \in 1..Len(SKIP) :
    SKIP[k] = <<step_name>> \/ SKIP[k] = <<step_number>>

\* a block that goes on to the next step whatever it met
afterStepGoesOn(w, n, outcome) ==
  [w EXCEPT !.executed = Append(@, n),
            !.met = Append(@, outcome),
            !.pc = IF n = 4 THEN "summary" ELSE "step",
            !.n = IF n = 4 THEN 0 ELSE n + 1]

\* the block of step n: exit 1 when a command fails or the graph file is
\* missing, the next step otherwise
afterStep(w, n, outcome) ==
  IF outcome = "ok"
  THEN [w EXCEPT !.executed = Append(@, n),
                 !.met = Append(@, outcome),
                 !.pc = IF n = 4 THEN "summary" ELSE "step",
                 !.n = IF n = 4 THEN 0 ELSE n + 1]
  ELSE [w EXCEPT !.executed = Append(@, n),
                 !.met = Append(@, outcome),
                 !.pc = "exit", !.n = 0, !.exit = 1]

InitWorkflow ==
  /\ \E s \in SeqsUpTo(Pieces, MaxSkipLen) :
       wf = [running |-> TRUE, skip_steps |-> s, SKIP |-> <<>>,
             pc |-> "confirm", confirmed |-> FALSE, n |-> 0,
             executed |-> <<>>, met |-> <<>>,
             exit |-> 0 - 1, summary |-> FALSE]
  /\ cs = notRunning
  /\ storage = "unset"
  /\ doc = [p \in Places |-> [es |-> <<>>, request |-> 0, pip |-> 0, alert |-> ""]]
  /\ ctx = [p \in Places |-> freshContext]
  /\ ui = [t \in Tabs |-> freshAction]
  /\ act = [a \in Acts |-> freshActivation]
  /\ rankPc = "off"
  /\ rankR = <<>>
  /\ rankVideo = undefined
  /\ rankVideo2 = undefined

\* check_command ... and the confirmation: a missing command exits with 1,
\* a reply other than y or Y with 0
Confirm(found, reply) ==
  /\ wf.pc = "confirm"
  /\ wf' = IF ~found THEN [wf EXCEPT !.pc = "exit", !.exit = 1]
           ELSE IF reply # "y" THEN [wf EXCEPT !.pc = "exit", !.exit = 0]
           ELSE [wf EXCEPT !.pc = "read", !.confirmed = TRUE]
  /\ UNCHANGED <<pipeVars, rankVars, cs>>

\* run_workflow up to the first step: mkdir -p ..., read -ra SKIP
ReadSkipSteps ==
  /\ wf.pc = "read"
  /\ wf' = [wf EXCEPT !.SKIP = split(wf.skip_steps), !.pc = "step", !.n = 1]
  /\ UNCHANGED <<pipeVars, rankVars, cs>>

\* if ! should_skip ...; else log info "Skipping ..."
StepSkipped ==
  /\ wf.pc = "step"
  /\ should_skip(wf.SKIP, stepName(wf.n), stepNumber(wf.n))
  /\ wf' = [wf EXCEPT !.pc = IF wf.n = 4 THEN "summary" ELSE "step",
                      !.n = IF wf.n = 4 THEN 0 ELSE wf.n + 1]
  /\ UNCHANGED <<pipeVars, rankVars, cs>>

\* if ! should_skip ...; then the block of the step
StepRun(outcome) ==
  /\ wf.pc = "step"
  /\ ~should_skip(wf.SKIP, stepName(wf.n), stepNumber(wf.n))
  /\ outcome \in Outcomes(wf.n)
  /\ wf' = afterStep(wf, wf.n, outcome)
  /\ UNCHANGED <<pipeVars, rankVars, cs>>

\* the final summary: "Workflow completed successfully!"; the script ends
\* with the status of its last command, an echo
Summary ==
  /\ wf.pc = "summary"
  /\ wf' = [wf EXCEPT !.summary = TRUE, !.pc = "exit", !.exit = 0]
  /\ UNCHANGED <<pipeVars, rankVars, cs>>

NextWorkflow ==
  \/ \E found \in BOOLEAN : \E reply \in {"y", "n"} : Confirm(found, reply)
  \/ ReadSkipSteps
  \/ StepSkipped
  \/ \E outcome \in {"ok", "failed", "nograph"} : StepRun(outcome)
  \/ Summary

SpecWorkflow == InitWorkflow /\ [][NextWorkflow]_vars

\* the name or the number of step n stands between two commas (or an end)
\* of the value of --skip-steps
listed(n) ==
  \E i \in 1..Len(wf.skip_steps) :
    /\ wf.skip_steps[i] \in {stepName(n), stepNumber(n)}
    /\ i = 1 \/ wf.skip_steps[i - 1] = ","
    /\ i = Len(wf.skip_steps) \/ wf.skip_steps[i + 1] = ","

\* step n was executed, and what it met
wasExecuted(n) == \E k \in 1..Len(wf.executed) : wf.executed[k] = n
metAt(n) == wf.met[CHOOSE k \in 1..Len(wf.executed) : wf.executed[k] = n]

\* the executed steps ran in the order 1, 2, 3, 4
inOrder ==
  \A j, k \in 1..Len(wf.executed) : j < k => wf.executed[j] < wf.executed[k]

\* C27 as stated: when a run the user confirmed has ended, a step was
\* executed if and only if neither its name nor its number is in the skip
\* list, and the executed steps ran in the order 1, 2, 3, 4
C27_ExecutedIffNotListed ==
  /\ inOrder
  /\ (wf.pc = "exit" /\ wf.confirmed) =>
       \A n \in Steps : wasExecuted(n) <=> ~listed(n)

\* C27 amended: a step is executed only if neither its name nor its number
\* is in the skip list; when the script has ended, a step that is not in
\* the list was executed exactly if the user confirmed the run and every
\* step before it that is not in the list succeeded; the executed steps
\* ran in the order 1, 2, 3, 4
C27_ExecutedIffNotListedAndReached ==
  /\ inOrder
  /\ \A n \in Steps : wasExecuted(n) => ~listed(n)
  /\ wf.pc = "exit" =>
       \A n \in Steps :
         wasExecuted(n) <=>
           /\ ~listed(n)
           /\ wf.confirmed
           /\ \A j \in 1..(n - 1) :
                ~listed(j) => (wasExecuted(j) /\ metAt(j) = "ok")

\* a run that ended with the summary, with step 2 skipped by its number and
\* step 4 by its name
C27_Witness ==
  /\ wf.pc = "exit" /\ wf.summary
  /\ wf.skip_steps = <<"2", ",", "visualize">>
  /\ wf.executed = <<1, 3>>

\* C28: a step that met a failing command or a missing graph file is the
\* last step executed, the script has then ended with exit status 1 and
\* without the summary; the summary is printed only when every step that is
\* not in the skip list was executed and succeeded
C28_FailureStopsWithExit1 ==
  /\ \A k \in 1..Len(wf.met) :
       wf.met[k] # "ok" =>
         /\ k = Len(wf.met)
         /\ wf.pc = "exit" /\ wf.exit = 1
         /\ ~wf.summary
  /\ wf.summary =>
       \A n \in Steps : ~listed(n) => (wasExecuted(n) /\ metAt(n) = "ok")

\* a run whose download step found no graph file after a successful scrape,
\* with later steps left to run
C28_Witness ==
  /\ wf.running
  /\ wf.executed = <<1, 2>>
  /\ wf.met = <<"ok", "nograph">>
  /\ ~listed(3) /\ ~listed(4)
  /\ wf.exit = 1

(***************************************************************************)
(* SpecPage: the pipeline together with what the tab does meanwhile: its   *)
(* content script sends messages to onMessage and the page removes its     *)
(* video elements. SpecOverride: the pipeline with a page that assigns an  *)
(* exit operation of its own.                                              *)
(***************************************************************************)
\* es without the element at position k
removeAt(es, k) == SubSeq(es, 1, k - 1) \o SubSeq(es, k + 1, Len(es))

\* the page removes a video element of frame p from the document, while no
\* request is pending and no PiP session runs in the frame (request and pip
\* name their element by its position in es)
PageRemovesVideo(p, k) ==
  /\ k \in 1..Len(doc[p].es)
  /\ doc[p].request = 0 /\ doc[p].pip = 0
  /\ doc' = [doc EXCEPT ![p].es = removeAt(@, k)]
  /\ UNCHANGED <<storage, ctx, ui, act, rankVars, sideVars>>

\* an exit operation the page defines itself
pageExit == [base |-> "page", proxies |-> 0]

\* the page assigns Document.prototype.exitPictureInPicture in frame p
PageAssignsExit(p) ==
  /\ ctx[p].exitPictureInPicture # pageExit
  /\ ctx' = [ctx EXCEPT ![p].exitPictureInPicture = pageExit]
  /\ UNCHANGED <<storage, doc, ui, act, rankVars, sideVars>>

\* the initial states of Spec in which only the frames of tab 1 hold video
\* elements, all of them playing, and the preference is unset
InitPage ==
  /\ InitLive
  /\ storage = "unset"

NextPage ==
  \/ Next
  \/ \E t \in Tabs : \E method \in Methods : MessageReceived(t, method)
  \/ \E p \in Places : \E k \in 1..MaxEs : PageRemovesVideo(p, k)

SpecPage == InitPage /\ [][NextPage]_vars

\* the initial states of SpecPage in which the main frame of tab 1 holds
\* video elements and no other frame does
InitOverride ==
  /\ InitPage
  /\ \A p \in Places : doc[p].es # <<>> <=> p = <<1, 0>>

NextOverride ==
  \/ Next
  \/ \E p \in Places : PageAssignsExit(p)

SpecOverride == InitOverride /\ [][NextOverride]_vars

\* C31: markPlaying changes nothing but the icon of the sender's tab; in
\* every step, whether of an activation or of a playing message, a tab's
\* badge "E" stays "E", and a tab's badge or title changes only in the
\* catch block of an activation on that tab, which leaves the icon alone
C31_MarkPlayingKeepsBadgeAndTitle ==
  [][\A t \in Tabs :
       /\ markPlaying(ui, t) = [ui EXCEPT ![t].icon = "playing"]
       /\ ui[t].badge = "E" => ui'[t].badge = "E"
       /\ (ui'[t].badge # ui[t].badge \/ ui'[t].title # ui[t].title) =>
            /\ ui'[t].icon = ui[t].icon
            /\ ui'[t].badge = "E"
            /\ \E a \in Acts :
                 /\ act[a].tab = t
                 /\ act[a].pc # "Idle" /\ act'[a].pc = "Idle"
                 /\ act'[a].caught = ui'[t].title
       /\ ui'[t].icon # ui[t].icon => ui'[t].icon = "playing"]_vars

\* a tab that carries the badge of a failed activation and on which a later
\* activation went through to its activator and marked the tab playing
C31_Witness ==
  \E a, b \in Acts :
    /\ a < b
    /\ act[a].tab = act[b].tab
    /\ finished(a) /\ act[a].caught # ""
    /\ finished(b) /\ act[b].caught = ""
    /\ [script |-> "activator", place |-> targetOf(act[b])] \in act[b].ran
    /\ ui[act[b].tab].badge = "E"
    /\ ui[act[b].tab].title = act[a].caught
    /\ ui[act[b].tab].icon = "playing"

\* C32: in every frame context the record self.pipobj, once created, keeps
\* the pointer it captured at the first guard installation, and every
\* expiry of a guard timer leaves as the exit operation what that first
\* installation found, whatever the page assigned in between
C32_ExpiryRestoresFirstCapture ==
  [][\A p \in Places :
       /\ (ctx[p].pipobj = undefined /\ ctx'[p].pipobj # undefined) =>
            ctx'[p].pipobj.pointer = ctx[p].exitPictureInPicture
       /\ ctx[p].pipobj # undefined =>
            /\ ctx'[p].pipobj # undefined
            /\ ctx'[p].pipobj.pointer = ctx[p].pipobj.pointer
            /\ ctx[p].pipobj.pointer = firstInstall(ctx[p]).before
       /\ ctx'[p].restored # ctx[p].restored =>
            ctx'[p].exitPictureInPicture = firstInstall(ctx[p]).before]_vars

\* the first installation found the native operation, the page assigned its
\* own operation afterwards (a later installation found it), and the last
\* timer has expired: the native operation is in place, not the page's
C32_Witness ==
  \E p \in Places :
    /\ ctx[p].pipobj # undefined
    /\ firstInstall(ctx[p]).before = nativeExit
    /\ \E i \in ctx[p].installs : i.before = pageExit
    /\ lastRestored(ctx[p])
    /\ ctx[p].timers = {}
    /\ ctx[p].exitPictureInPicture = nativeExit

\* the step in which the activator's executeScript of activation a resolves
activatorResolves(a) ==
  /\ act[a].pc = "Activating"
  /\ act'[a].pc = "Idle"
  /\ act'[a].caught = ""

\* C33: when the activator runs in a winner's frame that holds no video
\* element any more, no PiP request is issued and no error is signalled:
\* the frame's document and the tab's badge, title and icon are unchanged,
\* the icon is in the playing state, and the activation is back in Idle
C33_ActivatorWithoutVideoIsSilent ==
  [][\A a \in Acts :
       (activatorResolves(a) /\ doc[targetOf(act[a])].es = <<>>) =>
         /\ doc' = doc
         /\ doc'[targetOf(act[a])].request = 0
         /\ ui' = ui
         /\ ui'[act[a].tab].icon = "playing"
         /\ act'[a].pc = "Idle"
         /\ [script |-> "activator", place |-> targetOf(act[a])]
               \in act'[a].ran]_vars

\* an activation whose guard was installed and whose activator ran in the
\* same instant in a frame that holds no element: no request is pending,
\* none was settled, and the tab shows the playing icon and no error
C33_Witness ==
  \E a \in Acts :
    /\ finished(a) /\ act[a].caught = ""
    /\ act[a].video # undefined
    /\ guardRan(a)
    /\ [script |-> "activator", place |-> targetOf(act[a])] \in act[a].ran
    /\ ctx[targetOf(act[a])].age = 0
    /\ doc[targetOf(act[a])].es = <<>>
    /\ doc[targetOf(act[a])].request = 0
    /\ doc[targetOf(act[a])].pip = 0
    /\ doc[targetOf(act[a])].alert = ""
    /\ ui[act[a].tab] = [icon |-> "playing", badge |-> "", title |-> ""]

\* C34: an installed guard is lifted only by the callback of the timer of
\* the last installation, not before 2000 ms have passed since it; a step
\* in which a PiP request settles or an activation returns to Idle, from
\* its activator or from its catch block, leaves every frame's exit
\* operation and timers as they are; while the grace window of the last
\* installation is open, a call of the exit operation is intercepted
C34_GuardLiftedOnlyByExpiry ==
  [][\A p \in Places :
       /\ (/\ ctx[p].exitPictureInPicture.proxies > 0
           /\ ctx'[p].exitPictureInPicture.proxies
                < ctx[p].exitPictureInPicture.proxies) =>
            /\ ctx[p].age = GraceMs
            /\ \E r \in ctx'[p].restored \ ctx[p].restored :
                 r.id = ctx[p].pipobj.id
       /\ (\/ doc'[p].request # doc[p].request
           \/ doc'[p].alert # doc[p].alert
           \/ \E a \in Acts : act[a].pc # "Idle" /\ act'[a].pc = "Idle") =>
            ctx' = ctx
       /\ (ctx[p].pipobj # undefined /\ inGraceWindow(ctx[p])) =>
            exitCall(ctx[p].exitPictureInPicture) = "ignored"]_vars

\* an activation installed the guard and ended in its catch block because
\* the activator's script failed; later, within the grace window, the guard
\* is still in place and has intercepted a call of the exit operation
C34_Witness ==
  \E a \in Acts :
    /\ finished(a) /\ guardRan(a)
    /\ act[a].caught = MsgActivatorRejected
    /\ ctx[guardTarget(act[a])].age > 0
    /\ inGraceWindow(ctx[guardTarget(act[a])])
    /\ ctx[guardTarget(act[a])].exitPictureInPicture.proxies > 0
    /\ ctx[guardTarget(act[a])].logged

(***************************************************************************)
(* SpecPlaylist: the popup's functions that change the stored playlist     *)
(* (addCurrentVideo with handleVideoInfo, removeVideo, clearPlaylist),     *)
(* with chrome.storage.local as the store: a get reads the stored value at *)
(* some time and calls back with a copy of it later, a set writes its      *)
(* value at some time after the call. cs holds the stored playlist and the *)
(* calls of the three functions, each with its position, its copy and      *)
(* whether it has called set.                                              *)
(***************************************************************************)
\* the three functions are called at most this many times altogether
MaxOps == 3

\* the url of another page
OtherUrl == "https://example.org/other"

Urls == {CurrentUrl, OtherUrl}

\* the entries handleVideoInfo stores
Entries == [url : Urls, timestamp : 0..MaxSeconds]

\* the playlists without two entries of the same url, of entries added at
\* position 0
StoredPlaylists ==
  {s \in SeqsUpTo({e \in Entries : e.timestamp = 0}, 2) :
     \A j, k \in 1..Len(s) : j # k => s[j].url # s[k].url}

\* a get callback of handleVideoInfo that pushes without the check
pushAlways(playlist, videoInfo) ==
  [set |-> TRUE, playlist |-> Append(playlist, videoInfo)]

\* the get callback of handleVideoInfo: exists = playlist.some(v => v.url
\* === videoInfo.url); if (!exists) { playlist.push(videoInfo);
\* chrome.storage.local.set(...) } else alert(...)
pushIfNew(playlist, videoInfo) ==
  IF \E k \in 1..Len(playlist) : playlist[k].url = videoInfo.url
  THEN [set |-> FALSE, playlist |-> playlist]
  ELSE [set |-> TRUE, playlist |-> Append(playlist, videoInfo)]

\* playlist.splice(index, 1): index counts from 0; nothing is removed when
\* it is not below the length
splice(playlist, index) ==
  IF index < Len(playlist)
  THEN SubSeq(playlist, 1, index) \o SubSeq(playlist, index + 2, Len(playlist))
  ELSE playlist

InitPlaylist ==
  /\ \E s \in StoredPlaylists :
       cs = [running |-> TRUE, stored |-> s, ops |-> <<>>]
  /\ wf = notRunning
  /\ storage = "unset"
  /\ doc = [p \in Places |-> [es |-> <<>>, request |-> 0, pip |-> 0, alert |-> ""]]
  /\ ctx = [p \in Places |-> freshContext]
  /\ ui = [t \in Tabs |-> freshAction]
  /\ act = [a \in Acts |-> freshActivation]
  /\ rankPc = "off"
  /\ rankR = <<>>
  /\ rankVideo = undefined
  /\ rankVideo2 = undefined

\* handleVideoInfo(response) runs with a successful response for the tab of
\* url: videoInfo is built and chrome.storage.local.get is called
HandleVideoInfoCalled(url, currentTime) ==
  /\ Len(cs.ops) < MaxOps
  /\ cs' = [cs EXCEPT !.ops =
              Append(@, [kind |-> "add", pc |-> "get",
                         videoInfo |-> [url |-> url,
                                        timestamp |-> orZero(currentTime)],
                         index |-> 0, playlist |-> <<>>, set |-> FALSE])]
  /\ UNCHANGED <<pipeVars, rankVars, wf>>

\* removeVideo(index): chrome.storage.local.get is called
RemoveVideoCalled(index) ==
  /\ Len(cs.ops) < MaxOps
  /\ cs' = [cs EXCEPT !.ops =
              Append(@, [kind |-> "remove", pc |-> "get",
                         videoInfo |-> undefined,
                         index |-> index, playlist |-> <<>>,
                         set |-> FALSE])]
  /\ UNCHANGED <<pipeVars, rankVars, wf>>

\* clearPlaylist(), confirmed: chrome.storage.local.set is called with []
ClearPlaylistCalled ==
  /\ Len(cs.ops) < MaxOps
  /\ cs' = [cs EXCEPT !.ops =
              Append(@, [kind |-> "clear", pc |-> "set",
                         videoInfo |-> undefined,
                         index |-> 0, playlist |-> <<>>, set |-> TRUE])]
  /\ UNCHANGED <<pipeVars, rankVars, wf>>

\* the store serves the get of call o: result['video-playlist'] is a copy
\* of the stored playlist
StorageRead(o) ==
  /\ cs.ops[o].pc = "get"
  /\ cs' = [cs EXCEPT !.ops[o].pc = "got", !.ops[o].playlist = cs.stored]
  /\ UNCHANGED <<pipeVars, rankVars, wf>>

\* the callback of the get of call o runs on its copy: handleVideoInfo
\* pushes and calls set unless the url exists, removeVideo splices and
\* calls set
GetCallback(o) ==
  /\ cs.ops[o].pc = "got"
  /\ LET op == cs.ops[o]
         added == pushIfNew(op.playlist, op.videoInfo)
     IN cs' = IF op.kind = "add"
              THEN [cs EXCEPT !.ops[o].pc = IF added.set THEN "set" ELSE "done",
                              !.ops[o].set = added.set,
                              !.ops[o].playlist = added.playlist]
              ELSE [cs EXCEPT !.ops[o].pc = "set",
                              !.ops[o].set = TRUE,
                              !.ops[o].playlist = splice(op.playlist, op.index)]
  /\ UNCHANGED <<pipeVars, rankVars, wf>>

\* the store writes the value of the set of call o; its callback only
\* renders the playlist again (loadPlaylist)
StorageWrite(o) ==
  /\ cs.ops[o].pc = "set"
  /\ cs' = [cs EXCEPT !.stored = cs.ops[o].playlist, !.ops[o].pc = "done"]
  /\ UNCHANGED <<pipeVars, rankVars, wf>>

NextPlaylist ==
  \/ \E url \in Urls : \E currentTime \in 0..MaxSeconds :
       HandleVideoInfoCalled(url, currentTime)
  \/ \E index \in 0..2 : RemoveVideoCalled(index)
  \/ ClearPlaylistCalled
  \/ \E o \in 1..MaxOps : o <= Len(cs.ops) /\ StorageRead(o)
  \/ \E o \in 1..MaxOps : o <= Len(cs.ops) /\ GetCallback(o)
  \/ \E o \in 1..MaxOps : o <= Len(cs.ops) /\ StorageWrite(o)

SpecPlaylist == InitPlaylist /\ [][NextPlaylist]_vars

\* no two entries of the playlist have the same url
distinctUrls(playlist) ==
  \A j, k \in 1..Len(playlist) : j # k => playlist[j].url # playlist[k].url

\* C35: from a stored playlist without two entries of the same url, under
\* every interleaving of the get and set callbacks of addCurrentVideo,
\* removeVideo and clearPlaylist, the stored playlist (and every copy on its
\* way to the store) has no two entries of the same url
C35_StoredPlaylistHasDistinctUrls ==
  /\ distinctUrls(cs.stored)
  /\ \A o \in 1..Len(cs.ops) : distinctUrls(cs.ops[o].playlist)

\* two calls of handleVideoInfo for the same url that both read the store
\* before either wrote (neither copy held the url), and both wrote: the url
\* is stored once
C35_Witness ==
  \E o1, o2 \in 1..Len(cs.ops) :
    /\ o1 < o2
    /\ cs.ops[o1].kind = "add" /\ cs.ops[o2].kind = "add"
    /\ cs.ops[o1].videoInfo.url = cs.ops[o2].videoInfo.url
    /\ cs.ops[o1].pc = "done" /\ cs.ops[o2].pc = "done"
    /\ cs.ops[o1].set /\ cs.ops[o2].set
    /\ Len(cs.ops[o1].playlist) = Len(cs.ops[o2].playlist)
    /\ Cardinality({k \in 1..Len(cs.stored) :
                      cs.stored[k].url = cs.ops[o1].videoInfo.url}) = 1

=============================================================================
